---- MODULE Spec2Model ----
(***************************************************************************)
(* Model of stpipeline/common/clustering.py: the extraction of molecular   *)
(* barcodes from reads and the three strategies (naive, prefix trie,       *)
(* hierarchical) that cluster reads by molecular barcode.                  *)
(*                                                                         *)
(* A string is a tuple of one-character strings, a read is the tuple       *)
(* <<sequence, name>> (Python's read[0] is read[1] here), a record of the  *)
(* extractor is <<molecular_barcode, read, occurrences, number of Ns>>.    *)
(* Python positions are 0-based, the positions of the model are 1-based.   *)
(***************************************************************************)
EXTENDS Integers, Sequences, FiniteSets, TLC

\* ------------------------------------------------------------------ bounds
\* Largest number of reads in one batch.
MaxReads == 3
\* Length of the sequence of every read.
SeqLen == 3
\* allowed_mismatches ranges over 0..MaxMismatches.
MaxMismatches == 2
\* min_cluster_size ranges over 1..MaxMinClusterSize.
MaxMinClusterSize == 2

\* The bases of a sequence; "N" is the ambiguous base.
Alphabet == {"A", "N"}

\* ----------------------------------------------------------------- helpers
Min(a, b) == IF a <= b THEN a ELSE b

Range(s) == {s[p] : p \in DOMAIN s}

\* The elements of a finite set of integers in ascending order.
Ascending(S) ==
  [r \in 1..Cardinality(S) |-> CHOOSE x \in S : Cardinality({y \in S : y < x}) = r - 1]

\* The orders of n records.
Orders(n) == {f \in [1..n -> 1..n] : \A a, b \in 1..n : f[a] = f[b] => a = b}

\* Python's concatenation of a list of lists.
RECURSIVE Flatten(_)
Flatten(ss) == IF ss = <<>> THEN <<>> ELSE Flatten(SubSeq(ss, 1, Len(ss) - 1)) \o ss[Len(ss)]

\* The code point of a base, which orders Python's strings.
Ord(c) == CASE c = "A" -> 65 [] c = "C" -> 67 [] c = "G" -> 71 [] c = "N" -> 78 [] c = "T" -> 84

\* Python's a < b on strings.
StrLess(a, b) ==
  \/ \E p \in 1..Min(Len(a), Len(b)) :
       /\ \A q \in 1..(p - 1) : a[q] = b[q]
       /\ Ord(a[p]) < Ord(b[p])
  \/ /\ Len(a) < Len(b)
     /\ \A q \in 1..Len(a) : a[q] = b[q]

\* Python's sequence[start:end] for 0 <= start < end.
Slice(s, start, end) == SubSeq(s, start + 1, Min(end, Len(s)))

\* ------------------------------------------------------------ the extractor
\* key=lambda x: (x[0], -x[2], x[3]) : the order of two keys.
ExtractKeyLess(x, y) ==
  \/ StrLess(x[1], y[1])
  \/ /\ x[1] = y[1]
     /\ \/ (0 - x[3]) < (0 - y[3])
        \/ (x[3] = y[3] /\ x[4] < y[4])

\* key=lambda x: (x[0]) : the order of two keys.
BarcodeKeyLess(x, y) == StrLess(x[1], y[1])

\* Python's sorted(s, key): the stable sort. The element at position p goes
\* behind every element of smaller key and every earlier element of equal key.
SortedBy(s, key) ==
  LET Less(x, y) == IF key = "x[0], -x[2], x[3]" THEN ExtractKeyLess(x, y)
                    ELSE BarcodeKeyLess(x, y)
      Rank(p) == 1 + Cardinality({q \in DOMAIN s :
                        \/ Less(s[q], s[p])
                        \/ (~Less(s[p], s[q]) /\ q < p)})
      ranked == {<<Rank(p), p>> : p \in DOMAIN s}
  IN  [r \in DOMAIN s |-> s[(CHOOSE x \in ranked : x[1] = r)[2]]]

\* mc = read[0][mc_start_position:mc_end_position]
MolecularBarcodeOf(read, start, end) == Slice(read[1], start, end)

\* molecular_barcodes_count_list, before it is sorted.
molecular_barcodes_count_list(rs, start, end) ==
  LET mc(p) == MolecularBarcodeOf(rs[p], start, end)
      molecular_barcodes_counts(b) == Cardinality({q \in DOMAIN rs : mc(q) = b})
      count_n(b) == Cardinality({q \in DOMAIN b : b[q] = "N"})
  IN  [p \in DOMAIN rs |-> <<mc(p), rs[p], molecular_barcodes_counts(mc(p)), count_n(mc(p))>>]

\* extractMolecularBarcodes without the final sort.
extractMolecularBarcodes_unsorted(rs, start, end) ==
  molecular_barcodes_count_list(rs, start, end)

\* extractMolecularBarcodes(reads, mc_start_position, mc_end_position)
extractMolecularBarcodes(rs, start, end) ==
  SortedBy(molecular_barcodes_count_list(rs, start, end), "x[0], -x[2], x[3]")

\* ------------------------------------------------------------- the distance
\* stpipeline.common.distance.hamming_distance: the number of positions at
\* which two strings of equal length differ.
hamming_distance(s1, s2) == Cardinality({p \in DOMAIN s1 : s1[p] # s2[p]})

\* --------------------------------------------------------- the naive sweep
EmptyDict == [c \in {} |-> <<>>]

\* clusters_dict[key] = [molecular_barcode], or .append when the key exists.
DictAdd(cd, key, mb) ==
  [c \in (DOMAIN cd) \cup {key} |->
     IF c = key
     THEN (IF key \in DOMAIN cd THEN Append(cd[key], mb) ELSE <<mb>>)
     ELSE cd[c]]

\* The sweep that compares with the first member of the current cluster.
NaiveStep_first(st, n, mb, k) ==
  IF n = 0
  THEN [clusters_dict |-> DictAdd(st.clusters_dict, st.nclusters, mb), nclusters |-> st.nclusters]
  ELSE IF hamming_distance(st.clusters_dict[st.nclusters][1][1], mb[1]) <= k
       THEN [clusters_dict |-> DictAdd(st.clusters_dict, st.nclusters, mb),
             nclusters |-> st.nclusters]
       ELSE [clusters_dict |-> DictAdd(st.clusters_dict, st.nclusters + 1, mb),
             nclusters |-> st.nclusters + 1]

\* The sweep that merges only below the threshold.
NaiveStep_strict(st, n, mb, k) ==
  IF n = 0
  THEN [clusters_dict |-> DictAdd(st.clusters_dict, st.nclusters, mb), nclusters |-> st.nclusters]
  ELSE IF hamming_distance(st.clusters_dict[st.nclusters][Len(st.clusters_dict[st.nclusters])][1],
                           mb[1]) < k
       THEN [clusters_dict |-> DictAdd(st.clusters_dict, st.nclusters, mb),
             nclusters |-> st.nclusters]
       ELSE [clusters_dict |-> DictAdd(st.clusters_dict, st.nclusters + 1, mb),
             nclusters |-> st.nclusters + 1]

\* The sweep that forgets nclusters += 1 and overwrites the current cluster.
NaiveStep_overwrite(st, n, mb, k) ==
  IF n = 0
  THEN [clusters_dict |-> DictAdd(st.clusters_dict, st.nclusters, mb), nclusters |-> st.nclusters]
  ELSE IF hamming_distance(st.clusters_dict[st.nclusters][Len(st.clusters_dict[st.nclusters])][1],
                           mb[1]) <= k
       THEN [clusters_dict |-> DictAdd(st.clusters_dict, st.nclusters, mb),
             nclusters |-> st.nclusters]
       ELSE [clusters_dict |-> [st.clusters_dict EXCEPT ![st.nclusters] = <<mb>>],
             nclusters |-> st.nclusters]

\* One iteration of the loop of countMolecularBarcodesClustersNaive, on the
\* n-th (0-based) record mb of the sorted list.
NaiveStep(st, n, mb, k) ==
  IF n = 0
  THEN [clusters_dict |-> DictAdd(st.clusters_dict, st.nclusters, mb), nclusters |-> st.nclusters]
  ELSE IF hamming_distance(st.clusters_dict[st.nclusters][Len(st.clusters_dict[st.nclusters])][1],
                           mb[1]) <= k
       THEN [clusters_dict |-> DictAdd(st.clusters_dict, st.nclusters, mb),
             nclusters |-> st.nclusters]
       ELSE [clusters_dict |-> DictAdd(st.clusters_dict, st.nclusters + 1, mb),
             nclusters |-> st.nclusters + 1]

\* sorted(molecular_barcodes, key=lambda x: (x[0]))
NaiveSorted(mbs) == SortedBy(mbs, "x[0]")

\* The state of the sweep after the first n records of the sorted list.
RECURSIVE NaiveSweep(_, _, _)
NaiveSweep(srt, n, k) ==
  IF n = 0
  THEN [clusters_dict |-> EmptyDict, nclusters |-> 0]
  ELSE NaiveStep(NaiveSweep(srt, n - 1, k), n - 1, srt[n], k)

\* The lists a cluster of the naive strategy can add to the result.
NaiveEmit_greater(members, min_size) ==
  IF Len(members) > min_size
  THEN {<<members[c][2]>> : c \in DOMAIN members}
  ELSE {[m \in DOMAIN members |-> members[m][2]]}

NaiveEmit(members, min_size) ==
  IF Len(members) >= min_size
  THEN {<<members[c][2]>> : c \in DOMAIN members}
  ELSE {[m \in DOMAIN members |-> members[m][2]]}

\* ---------------------------------------------------------- the prefix trie
\* The trie is the function from the barcodes it holds to their counts.
\* ct.CountTrie()
EmptyTrie == [b \in {} |-> 0]

\* trie.add(word)
TrieAdd(t, word) ==
  [b \in (DOMAIN t) \cup {word} |->
     IF b = word THEN (IF word \in DOMAIN t THEN t[word] + 1 ELSE 1) ELSE t[b]]

\* trie.get_count(word)
TrieGetCount(t, word) == IF word \in DOMAIN t THEN t[word] ELSE 0

\* trie.remove(word)
TrieRemove(t, word) == [b \in (DOMAIN t) \ {word} |-> t[b]]

\* One row of the table of edit distances: the cells of the columns 0..n of
\* the row that follows the row prev, for the character ch of the first string
\* (the cell of column c is at position c + 1).
RECURSIVE EditRow(_, _, _, _)
EditRow(prev, ch, b, n) ==
  IF n = 0
  THEN <<prev[1] + 1>>
  ELSE LET left == EditRow(prev, ch, b, n - 1)
       IN  Append(left, Min(Min(left[n] + 1, prev[n + 1] + 1),
                            prev[n] + (IF ch = b[n] THEN 0 ELSE 1)))

\* The row m of the table: the edit distances of a[1..m] and the prefixes of b.
RECURSIVE EditRows(_, _, _)
EditRows(a, b, m) ==
  IF m = 0
  THEN [c \in 1..(Len(b) + 1) |-> c - 1]
  ELSE EditRow(EditRows(a, b, m - 1), a[m], b, Len(b))

\* The edit distance of a and b: the fewest substitutions, insertions and
\* deletions that turn a into b.
EditDistance(a, b) == EditRows(a, b, Len(a))[Len(b) + 1]

\* The distance the trie searches within: substitutions only, or
\* substitutions, insertions and deletions.
TrieDistance(a, b, allow_indels_) ==
  IF allow_indels_ THEN EditDistance(a, b) ELSE hamming_distance(a, b)

\* trie.find_equal_length_optimized(word, mismatches, indels): the barcodes in
\* the trie, of the length of word, within the distance.
find_equal_length_optimized(t, word, mismatches, allow_indels_) ==
  {b \in DOMAIN t : Len(b) = Len(word) /\ TrieDistance(b, word, allow_indels_) <= mismatches}

\* A finite set of strings in ascending order.
AscendingStrings(S) ==
  [r \in 1..Cardinality(S) |->
     CHOOSE x \in S : Cardinality({y \in S : StrLess(y, x)}) = r - 1]

\* The reads of the records of barcode mc, in the order of the records.
ReadsOf(mbs, mc) ==
  LET at == Ascending({p \in DOMAIN mbs : mbs[p][1] = mc})
  IN  [r \in DOMAIN at |-> mbs[at[r]][2]]

\* The trie and the map reads after the first loop of
\* countMolecularBarcodesPrefixtrie.
RECURSIVE TrieOf(_, _)
TrieOf(mbs, n) == IF n = 0 THEN EmptyTrie ELSE TrieAdd(TrieOf(mbs, n - 1), mbs[n][1])

TrieBuilt(mbs) ==
  [trie |-> TrieOf(mbs, Len(mbs)),
   reads |-> [b \in {mbs[p][1] : p \in DOMAIN mbs} |-> ReadsOf(mbs, b)]]

\* The inner loop over the barcodes of one neighbourhood, in order cl.
RECURSIVE TrieGather(_, _, _, _)
TrieGather(t, rd, cl, n) ==
  IF n = 0
  THEN [trie |-> t, reads |-> rd, size_cluster |-> 0, original_reads |-> <<>>]
  ELSE LET prev == TrieGather(t, rd, cl, n - 1)
           clustered_mc == cl[n]
       IN  [trie |-> TrieRemove(prev.trie, clustered_mc),
            reads |-> [b \in (DOMAIN prev.reads) \ {clustered_mc} |-> prev.reads[b]],
            size_cluster |-> prev.size_cluster + TrieGetCount(prev.trie, clustered_mc),
            original_reads |-> prev.original_reads \o prev.reads[clustered_mc]]

\* The iteration that removes nothing, from the trie or from the map.
TrieIteration_nodelete(t, rd, mc, k, allow_indels_) ==
  LET cluster == find_equal_length_optimized(t, mc, k, allow_indels_)
      cl == AscendingStrings(cluster)
      g == TrieGather(t, rd, cl, Len(cl))
  IN  [cluster |-> cluster, trie |-> t, reads |-> rd,
       size_cluster |-> g.size_cluster, original_reads |-> g.original_reads]

\* The iteration that leaves the barcodes of the neighbourhood in the trie.
TrieIteration_noremove(t, rd, mc, k, allow_indels_) ==
  LET cluster == find_equal_length_optimized(t, mc, k, allow_indels_)
      cl == AscendingStrings(cluster)
      g == TrieGather(t, rd, cl, Len(cl))
  IN  [cluster |-> cluster, trie |-> t, reads |-> g.reads,
       size_cluster |-> g.size_cluster, original_reads |-> g.original_reads]

\* One iteration of the second loop of countMolecularBarcodesPrefixtrie, up
\* to the choice of what to add to the result, for the record of barcode mc.
TrieIteration(t, rd, mc, k, allow_indels_) ==
  LET cluster == find_equal_length_optimized(t, mc, k, allow_indels_)
      cl == AscendingStrings(cluster)
      g == TrieGather(t, rd, cl, Len(cl))
  IN  [cluster |-> cluster, trie |-> g.trie, reads |-> g.reads,
       size_cluster |-> g.size_cluster, original_reads |-> g.original_reads]

\* The lists an iteration of the trie strategy can add to the result.
TrieEmit(size, original, min_size) ==
  IF size >= min_size /\ Len(original) > 0
  THEN {<<original[c]>> : c \in DOMAIN original}
  ELSE {original}

\* The iterations n+1, n+2, ... of the second loop over mbs, from the trie t
\* and the map rd.
RECURSIVE TrieRun(_, _, _, _, _, _)
TrieRun(mbs, n, t, rd, k, allow_indels_) ==
  IF n >= Len(mbs) THEN <<>>
  ELSE LET it == TrieIteration(t, rd, mbs[n + 1][1], k, allow_indels_)
       IN  <<it>> \o TrieRun(mbs, n + 1, it.trie, it.reads, k, allow_indels_)

\* ------------------------------------------------- the hierarchical strategy
\* d(coord) with the second index slipped to the neighbour of the first.
d_neighbour(mbs, i_, j_) == hamming_distance(mbs[i_][1], mbs[i_ + 1][1])

\* def d(coord): the distance of the barcodes of the records i and j.
d(mbs, i_, j_) == hamming_distance(mbs[i_][1], mbs[j_][1])

\* np.triu_indices(len(molecular_barcodes), 1)
triu_indices(n) == {pr \in (1..n) \X (1..n) : pr[1] < pr[2]}

\* distance_matrix = np.apply_along_axis(d, 0, indices)
distance_matrix(mbs) == [pr \in triu_indices(Len(mbs)) |-> d(mbs, pr[1], pr[2])]

SetMin(S) == CHOOSE x \in S : \A y \in S : x <= y
SetMax(S) == CHOOSE x \in S : \A y \in S : x >= y

\* The distance of two clusters of observations: the smallest distance of two
\* of their members (single) or the largest (complete).
LinkageDistance(a, b, dm, method_) ==
  LET ds == {dm[IF x <= y THEN <<x, y>> ELSE <<y, x>>] : x \in a, y \in b}
  IN  IF method_ = "single" THEN SetMin(ds) ELSE SetMax(ds)

\* scipy's linkage(distance_matrix, method), from the clusters members on,
\* each under its smallest observation: the merges of the dendrogram in order,
\* each the two nearest clusters; of several nearest pairs the one of the
\* smallest observations merges first.
RECURSIVE LinkageFrom(_, _, _)
LinkageFrom(members, dm, method_) ==
  IF Cardinality(DOMAIN members) <= 1
  THEN <<>>
  ELSE LET near == {<<LinkageDistance(members[pr[1]], members[pr[2]], dm, method_),
                      pr[1], pr[2]>> :
                      pr \in {x \in (DOMAIN members) \X (DOMAIN members) : x[1] < x[2]}}
           best == CHOOSE x \in near : \A y \in near :
                     \/ x[1] < y[1]
                     \/ x[1] = y[1] /\ x[2] < y[2]
                     \/ x[1] = y[1] /\ x[2] = y[2] /\ x[3] <= y[3]
       IN  <<[left |-> members[best[2]], right |-> members[best[3]], dist |-> best[1]]>>
           \o LinkageFrom([r \in (DOMAIN members) \ {best[3]} |->
                             IF r = best[2] THEN members[best[2]] \cup members[best[3]]
                             ELSE members[r]],
                          dm, method_)

linkage(dm, n, method_) == LinkageFrom([x \in 1..n |-> {x}], dm, method_)

\* scipy's fcluster(Z, t, criterion='distance'), from the merge m on: a merge
\* forms a flat cluster when no merge below it is higher than t.
RECURSIVE FlatFrom(_, _, _, _)
FlatFrom(Z, m, P, t) ==
  IF m > Len(Z) THEN P
  ELSE IF Z[m].dist <= t /\ Z[m].left \in P /\ Z[m].right \in P
       THEN FlatFrom(Z, m + 1, (P \ {Z[m].left, Z[m].right}) \cup {Z[m].left \cup Z[m].right}, t)
       ELSE FlatFrom(Z, m + 1, P, t)

\* flat_clusters: the number of the flat cluster of every observation; the
\* clusters are numbered from 1 in the order of their smallest observation.
fcluster(Z, n, t) ==
  LET P == FlatFrom(Z, 1, {{x} : x \in 1..n}, t)
      Of(x) == CHOOSE c \in P : x \in c
  IN  [x \in 1..n |-> 1 + Cardinality({c \in P : SetMin(c) < SetMin(Of(x))})]

\* flat_clusters of countMolecularBarcodesClustersHierarchical.
HierFlatClusters(mbs, t, method_) ==
  fcluster(linkage(distance_matrix(mbs), Len(mbs), method_), Len(mbs), t)

\* items: flat cluster -> the positions of its records, in enumerate order.
HierItems(flat) ==
  [c \in Range(flat) |-> Ascending({x \in DOMAIN flat : flat[x] = c})]

\* The lists a flat cluster can add to the result.
HierEmit(members, mbs, min_size) ==
  IF Len(members) >= min_size
  THEN {<<mbs[members[c]][2]>> : c \in DOMAIN members}
  ELSE {[m \in DOMAIN members |-> mbs[members[m]][2]]}

\* ------------------------------------------------------------------- state
VARIABLES
  pc,                  \* the position of the call
  reads,               \* extractMolecularBarcodes: the reads
  mc_start_position,   \* extractMolecularBarcodes: the start of the barcode
  mc_end_position,     \* extractMolecularBarcodes: the end of the barcode
  molecular_barcodes,  \* the extractor's result, the strategies' input
  strategy,            \* the strategy the caller selected
  method,              \* hierarchical: the linkage method
  allow_indels,        \* trie: allow_indels
  allowed_mismatches,  \* the strategies' allowed_mismatches
  min_cluster_size,    \* the strategies' min_cluster_size
  i,                   \* trie: the number of records the second loop has processed
  clusters_dict,       \* naive: clusters_dict
  nclusters,           \* naive: nclusters
  trie,                \* trie: the CountTrie
  trie_reads,          \* trie: the map reads, molecular barcode -> reads
  size_cluster,        \* trie: size_cluster of the last iteration
  neighborhoods,       \* trie: cluster of every iteration so far
  flat_clusters,       \* hierarchical: flat_clusters
  items,               \* hierarchical: items
  clusters,            \* the list the strategy returns
  formed               \* the reads of every cluster formed so far

vars == <<pc, reads, mc_start_position, mc_end_position, molecular_barcodes, strategy,
          method, allow_indels, allowed_mismatches, min_cluster_size, i, clusters_dict,
          nclusters, trie, trie_reads, size_cluster, neighborhoods, flat_clusters, items,
          clusters, formed>>

extract_vars == <<reads, mc_start_position, mc_end_position>>
call_vars == <<strategy, method, allow_indels, allowed_mismatches, min_cluster_size>>
naive_vars == <<clusters_dict, nclusters>>
trie_vars == <<i, trie, trie_reads, size_cluster, neighborhoods>>
hier_vars == <<flat_clusters, items>>

\* The sequences of the reads.
Sequences == [1..SeqLen -> Alphabet]

\* The batch of the reads of sequences f[1], ..., f[n]: the name of a read is
\* its position in the batch.
Batch(f) == [p \in DOMAIN f |-> <<f[p], p>>]

Thresholds == 0..MaxMismatches
StartPositions == (0 - 1)..1
EndPositions == 1..(SeqLen + 1)
MinSizes == 1..MaxMinClusterSize
Methods == {"single", "complete"}

\* No strategy called yet.
NoCall ==
  /\ strategy = "none"
  /\ method = "single"
  /\ allow_indels = TRUE
  /\ allowed_mismatches = 0
  /\ min_cluster_size = 1
  /\ i = 0
  /\ clusters_dict = EmptyDict
  /\ nclusters = 0
  /\ trie = EmptyTrie
  /\ trie_reads = EmptyDict
  /\ size_cluster = 0
  /\ neighborhoods = <<>>
  /\ flat_clusters = <<>>
  /\ items = EmptyDict
  /\ clusters = <<>>
  /\ formed = <<>>

\* A batch of reads for the extractor.
InitExtract ==
  /\ pc = "extract"
  /\ \E n \in 0..MaxReads : \E f \in [1..n -> Sequences] : reads = Batch(f)
  /\ mc_start_position = 0
  /\ mc_end_position = 0
  /\ molecular_barcodes = <<>>
  /\ NoCall

\* The extractor's result for a batch of reads whose barcode is their whole
\* sequence, for a strategy. The reads are named in the order the extractor
\* returns them.
Init ==
  /\ pc = "idle"
  /\ \E n \in 0..MaxReads : \E f \in [1..n -> Sequences] :
       /\ \A p \in 1..(n - 1) : ~StrLess(f[p + 1], f[p])
       /\ reads = Batch(f)
  /\ mc_start_position = 0
  /\ mc_end_position = SeqLen
  /\ molecular_barcodes = extractMolecularBarcodes(reads, mc_start_position, mc_end_position)
  /\ NoCall

\* ----------------------------------------------------------------- actions
\* extractMolecularBarcodes(reads, start, end), the assertion holding.
Extract(start, end) ==
  /\ pc = "extract"
  /\ end > start /\ start >= 0
  /\ mc_start_position' = start
  /\ mc_end_position' = end
  /\ molecular_barcodes' = extractMolecularBarcodes(reads, start, end)
  /\ pc' = "extracted"
  /\ UNCHANGED <<reads, call_vars, naive_vars, trie_vars, hier_vars, clusters, formed>>

\* extractMolecularBarcodes(reads, start, end), the assertion failing.
ExtractAssertionError(start, end) ==
  /\ pc = "extract"
  /\ ~(end > start /\ start >= 0)
  /\ mc_start_position' = start
  /\ mc_end_position' = end
  /\ pc' = "AssertionError"
  /\ UNCHANGED <<reads, molecular_barcodes, call_vars, naive_vars, trie_vars, hier_vars,
                 clusters, formed>>

\* The caller hands the records to a strategy in another order.
Reorder ==
  /\ pc = "idle"
  /\ \E perm \in Orders(Len(molecular_barcodes)) :
       molecular_barcodes' = [p \in DOMAIN molecular_barcodes |-> molecular_barcodes[perm[p]]]
  /\ pc' = "reordered"
  /\ UNCHANGED <<extract_vars, call_vars, naive_vars, trie_vars, hier_vars, clusters, formed>>

\* The results the second loop of a strategy can build: emit[c] is the set of
\* lists the c-th cluster can add.
RECURSIVE EmitAll(_)
EmitAll(emit) ==
  IF emit = <<>> THEN {<<>>}
  ELSE {a \o b : a \in EmitAll(SubSeq(emit, 1, Len(emit) - 1)), b \in emit[Len(emit)]}

\* The first loop of countMolecularBarcodesClustersNaive.
NaiveFirstLoop(k) ==
  \E srt \in {NaiveSorted(molecular_barcodes)} : \E st \in {NaiveSweep(srt, Len(srt), k)} :
      /\ clusters_dict' = st.clusters_dict
      /\ nclusters' = st.nclusters
      /\ formed' = [c \in 1..Cardinality(DOMAIN st.clusters_dict) |->
                      [m \in DOMAIN st.clusters_dict[c - 1] |-> st.clusters_dict[c - 1][m][2]]]

\* countMolecularBarcodesClustersNaive(molecular_barcodes, k, ...), up to the
\* end of its first loop; the second loop reads min_cluster_size.
Naive(k) ==
  /\ pc \in {"idle", "reordered"}
  /\ strategy' = "naive"
  /\ allowed_mismatches' = k
  /\ NaiveFirstLoop(k)
  /\ pc' = "naive_filter"
  /\ UNCHANGED <<extract_vars, molecular_barcodes, method, allow_indels, min_cluster_size,
                 trie_vars, hier_vars, clusters>>

\* countMolecularBarcodesClustersHierarchical(molecular_barcodes, k, ...,
\* method) on at most two records: the call of
\* countMolecularBarcodesClustersNaive, up to the end of its first loop.
HierDelegate(k, method_) ==
  /\ pc \in {"idle", "reordered"}
  /\ Len(molecular_barcodes) <= 2
  /\ strategy' = "hierarchical"
  /\ method' = method_
  /\ allowed_mismatches' = k
  /\ NaiveFirstLoop(k)
  /\ pc' = "naive_filter"
  /\ UNCHANGED <<extract_vars, molecular_barcodes, allow_indels, min_cluster_size, trie_vars,
                 hier_vars, clusters>>

\* The second loop of countMolecularBarcodesClustersNaive, with
\* min_cluster_size = min_size, and its return; the clusters are taken in the
\* order of their keys.
NaiveFilter(min_size) ==
  /\ pc = "naive_filter"
  /\ min_cluster_size' = min_size
  /\ clusters' \in EmitAll([c \in 1..Cardinality(DOMAIN clusters_dict) |->
                              NaiveEmit(clusters_dict[c - 1], min_size)])
  /\ pc' = "done"
  /\ UNCHANGED <<extract_vars, molecular_barcodes, strategy, method, allow_indels,
                 allowed_mismatches, naive_vars, trie_vars, hier_vars, formed>>

\* countMolecularBarcodesPrefixtrie(molecular_barcodes, k, min_size,
\* allow_indels), up to the end of its first loop.
TrieBuild(k, min_size, allow_indels_) ==
  /\ pc \in {"idle", "reordered"}
  /\ strategy' = "trie"
  /\ allow_indels' = allow_indels_
  /\ allowed_mismatches' = k
  /\ min_cluster_size' = min_size
  /\ LET built == TrieBuilt(molecular_barcodes)
     IN  /\ trie' = built.trie
         /\ trie_reads' = built.reads
  /\ i' = 0
  /\ pc' = IF Len(molecular_barcodes) = 0 THEN "done" ELSE "trie_loop"
  /\ UNCHANGED <<extract_vars, molecular_barcodes, method, naive_vars, size_cluster,
                 neighborhoods, hier_vars, clusters, formed>>

\* One iteration of the second loop of countMolecularBarcodesPrefixtrie; the
\* last one returns.
TrieLoop ==
  /\ pc = "trie_loop"
  /\ LET it == TrieIteration(trie, trie_reads, molecular_barcodes[i + 1][1],
                             allowed_mismatches, allow_indels)
     IN  /\ trie' = it.trie
         /\ trie_reads' = it.reads
         /\ size_cluster' = it.size_cluster
         /\ neighborhoods' = Append(neighborhoods, it.cluster)
         /\ formed' = Append(formed, it.original_reads)
         /\ \E out \in TrieEmit(it.size_cluster, it.original_reads, min_cluster_size) :
              clusters' = clusters \o out
  /\ i' = i + 1
  /\ pc' = IF i + 1 = Len(molecular_barcodes) THEN "done" ELSE "trie_loop"
  /\ UNCHANGED <<extract_vars, molecular_barcodes, call_vars, naive_vars, hier_vars>>

\* countMolecularBarcodesPrefixtrie(molecular_barcodes, k, min_size,
\* allow_indels), the whole call, for every min_size: the neighbourhoods do
\* not depend on it.
Trie(k, allow_indels_) ==
  /\ pc \in {"idle", "reordered"}
  /\ strategy' = "trie"
  /\ allow_indels' = allow_indels_
  /\ allowed_mismatches' = k
  /\ \E built \in {TrieBuilt(molecular_barcodes)} :
       \E run \in {TrieRun(molecular_barcodes, 0, built.trie, built.reads, k, allow_indels_)} :
         LET n == Len(run)
         IN  /\ trie' = IF n = 0 THEN built.trie ELSE run[n].trie
             /\ trie_reads' = IF n = 0 THEN built.reads ELSE run[n].reads
             /\ size_cluster' = IF n = 0 THEN 0 ELSE run[n].size_cluster
             /\ neighborhoods' = [c \in DOMAIN run |-> run[c].cluster]
             /\ formed' = [c \in DOMAIN run |-> run[c].original_reads]
             /\ i' = n
             /\ \E min_size \in MinSizes :
                  /\ min_cluster_size' = min_size
                  /\ clusters' \in EmitAll([c \in DOMAIN run |->
                                              TrieEmit(run[c].size_cluster,
                                                       run[c].original_reads, min_size)])
  /\ pc' = "done"
  /\ UNCHANGED <<extract_vars, molecular_barcodes, method, naive_vars, hier_vars>>

\* countMolecularBarcodesClustersHierarchical(molecular_barcodes, k, ...,
\* method) on three records or more, up to the end of its first loop; the
\* second loop reads min_cluster_size.
Hier(k, method_) ==
  /\ pc \in {"idle", "reordered"}
  /\ Len(molecular_barcodes) > 2
  /\ strategy' = "hierarchical"
  /\ method' = method_
  /\ allowed_mismatches' = k
  /\ \E flat \in {HierFlatClusters(molecular_barcodes, k, method_)} :
       \E its \in {HierItems(flat)} :
         /\ flat_clusters' = flat
         /\ items' = its
         /\ formed' = [c \in 1..Cardinality(DOMAIN its) |->
                         [m \in DOMAIN its[c] |-> molecular_barcodes[its[c][m]][2]]]
  /\ pc' = "hier_filter"
  /\ UNCHANGED <<extract_vars, molecular_barcodes, allow_indels, min_cluster_size, naive_vars,
                 trie_vars, clusters>>

\* The second loop of countMolecularBarcodesClustersHierarchical, with
\* min_cluster_size = min_size, and its return; the flat clusters are taken in
\* the order of their numbers.
HierFilter(min_size) ==
  /\ pc = "hier_filter"
  /\ min_cluster_size' = min_size
  /\ clusters' \in EmitAll([c \in 1..Cardinality(DOMAIN items) |->
                              HierEmit(items[c], molecular_barcodes, min_size)])
  /\ pc' = "done"
  /\ UNCHANGED <<extract_vars, molecular_barcodes, strategy, method, allow_indels,
                 allowed_mismatches, naive_vars, trie_vars, hier_vars, formed>>

CallNaive == \E k \in Thresholds : Naive(k)

CallNaiveFilter == \E min_size \in MinSizes : NaiveFilter(min_size)

CallHierDelegate == \E k \in Thresholds, method_ \in Methods : HierDelegate(k, method_)

CallHier == \E k \in Thresholds, method_ \in Methods : Hier(k, method_)

CallHierFilter == \E min_size \in MinSizes : HierFilter(min_size)

CallTrie == \E k \in Thresholds, allow_indels_ \in BOOLEAN : Trie(k, allow_indels_)

CallTrieBuild ==
  \E k \in Thresholds, min_size \in MinSizes, allow_indels_ \in BOOLEAN :
    TrieBuild(k, min_size, allow_indels_)

CallNaiveExact == Naive(0)

CallHierDelegateExact == \E method_ \in Methods : HierDelegate(0, method_)

CallHierExact == \E method_ \in Methods : Hier(0, method_)

CallTrieExact == \E allow_indels_ \in BOOLEAN : Trie(0, allow_indels_)

CallExtract == \E start \in StartPositions, end \in EndPositions : Extract(start, end)

CallExtractAssertionError ==
  \E start \in StartPositions, end \in EndPositions : ExtractAssertionError(start, end)

\* A call of a strategy on the extractor's result.
Next ==
  \/ CallNaive
  \/ CallHierDelegate
  \/ CallNaiveFilter
  \/ CallTrie
  \/ CallHier
  \/ CallHierFilter

\* A call of the trie strategy, iteration by iteration.
NextTrie ==
  \/ CallTrieBuild
  \/ TrieLoop

\* The clustering of the hierarchical strategy on the extractor's result in
\* any order.
NextReordered ==
  \/ Reorder
  \/ CallHierDelegate
  \/ CallHier

\* The clustering of a strategy at allowed_mismatches = 0 on the extractor's
\* result in any order.
NextExact ==
  \/ Reorder
  \/ CallNaiveExact
  \/ CallHierDelegateExact
  \/ CallHierExact
  \/ CallTrieExact

\* A call of the extractor.
NextExtract ==
  \/ CallExtract
  \/ CallExtractAssertionError

\* The calls of the three strategies.
Spec == Init /\ [][Next]_vars

\* The calls of the trie strategy, its loop iteration by iteration.
SpecTrie == Init /\ [][NextTrie]_vars

\* The hierarchical strategy's clustering of the records in any order.
SpecReordered == Init /\ [][NextReordered]_vars

\* The three strategies' clustering at threshold 0 of the records in any order.
SpecExact == Init /\ [][NextExact]_vars

\* The calls of the extractor.
SpecExtract == InitExtract /\ [][NextExtract]_vars

\* ------------------------------------------- the clusters of a whole call
\* The clusters, as sets of reads, that each strategy forms on the records
\* mbs at the threshold k: the loops above run to their end.
NaiveClusters(mbs, k) ==
  LET cd == NaiveSweep(NaiveSorted(mbs), Len(mbs), k).clusters_dict
  IN  {{cd[c][m][2] : m \in DOMAIN cd[c]} : c \in DOMAIN cd}

TrieClusters(mbs, k, allow_indels_) ==
  LET built == TrieBuilt(mbs)
      run == TrieRun(mbs, 0, built.trie, built.reads, k, allow_indels_)
  IN  {Range(run[c].original_reads) : c \in DOMAIN run} \ {{}}

HierClusters(mbs, k, method_) ==
  IF Len(mbs) <= 2
  THEN NaiveClusters(mbs, k)
  ELSE LET its == HierItems(HierFlatClusters(mbs, k, method_))
       IN  {{mbs[its[c][m]][2] : m \in DOMAIN its[c]} : c \in DOMAIN its}

ClustersOf(strategy_, method_, allow_indels_, mbs, k) ==
  CASE strategy_ = "naive" -> NaiveClusters(mbs, k)
    [] strategy_ = "trie" -> TrieClusters(mbs, k, allow_indels_)
    [] strategy_ = "hierarchical" -> HierClusters(mbs, k, method_)

\* The non-empty clusters, as sets of reads, the call has resolved.
FormedClusters == {Range(formed[c]) : c \in DOMAIN formed} \ {{}}

\* The positions of the result at which a read of the cluster c stands.
OutputOf(c) == {o \in DOMAIN clusters : clusters[o] \in Range(formed[c])}

Finished == pc = "done"

\* The strategy has formed its clusters: the first loop of the naive or the
\* hierarchical strategy, or the loop of the trie strategy, has ended.
Clustered == pc \in {"naive_filter", "hier_filter"} \/ (pc = "done" /\ strategy = "trie")

\* ================================================================== claims
\* C1: when a strategy returns, the clusters it formed partition the input
\* reads: every input read is a member of exactly one cluster and occurs in it
\* once, the cluster sizes sum to the number of input reads, and every
\* non-empty cluster has one of its own reads in the result.
C1_ClustersPartitionReads ==
  Finished =>
    /\ \A p \in DOMAIN molecular_barcodes :
         Cardinality({c \in DOMAIN formed :
                        \E q \in DOMAIN formed[c] : formed[c][q] = molecular_barcodes[p][2]}) = 1
    /\ \A c \in DOMAIN formed : \A q1, q2 \in DOMAIN formed[c] :
         formed[c][q1] = formed[c][q2] => q1 = q2
    /\ Len(Flatten(formed)) = Len(molecular_barcodes)
    /\ \A c \in DOMAIN formed : formed[c] # <<>> => OutputOf(c) # {}

\* C1: a strategy has returned for three reads or more, having formed a
\* cluster of several reads and at least one more cluster.
C1_Witness ==
  /\ Finished
  /\ Len(molecular_barcodes) >= 3
  /\ Cardinality(FormedClusters) >= 2
  /\ \E c \in DOMAIN formed : Len(formed[c]) >= 2

\* C2: the input read handles being pairwise distinct, the returned list
\* holds no read handle twice, and every handle it holds is an input handle.
C2_NoReadTwice ==
  (/\ Finished
   /\ \A p, q \in DOMAIN molecular_barcodes :
        molecular_barcodes[p][2] = molecular_barcodes[q][2] => p = q)
  =>
    /\ \A a, b \in DOMAIN clusters : clusters[a] = clusters[b] => a = b
    /\ \A a \in DOMAIN clusters :
         \E p \in DOMAIN molecular_barcodes : clusters[a] = molecular_barcodes[p][2]

\* C2: the trie strategy has returned two reads or more for a batch in which
\* two reads share a barcode.
C2_Witness ==
  /\ Finished
  /\ strategy = "trie"
  /\ Len(clusters) >= 2
  /\ \E p, q \in DOMAIN molecular_barcodes :
       p # q /\ molecular_barcodes[p][1] = molecular_barcodes[q][1]

\* C3: a cluster of min_cluster_size members or more has exactly one of its
\* reads in the result, a smaller cluster has every one of its reads in it, and
\* the length of the result is the number of the former plus the total size of
\* the latter.
C3_RepresentativePolicy ==
  Finished =>
    /\ \A c \in DOMAIN formed :
         IF Len(formed[c]) >= min_cluster_size
         THEN Cardinality(OutputOf(c)) = 1
         ELSE /\ Cardinality(OutputOf(c)) = Len(formed[c])
              /\ Range(formed[c]) \subseteq Range(clusters)
    /\ Len(clusters) =
         Cardinality({c \in DOMAIN formed : Len(formed[c]) >= min_cluster_size})
         + Len(Flatten(SelectSeq(formed, LAMBDA f : Len(f) < min_cluster_size)))

\* C3: a strategy has returned having formed both a cluster it collapsed to
\* one read and a non-empty cluster below min_cluster_size.
C3_Witness ==
  /\ Finished
  /\ \E c \in DOMAIN formed : Len(formed[c]) >= min_cluster_size /\ Len(formed[c]) >= 2
  /\ \E c \in DOMAIN formed : Len(formed[c]) < min_cluster_size /\ Len(formed[c]) >= 1

\* The reads of equal barcode, grouped.
ExactGroups(mbs) ==
  {{mbs[q][2] : q \in {r \in DOMAIN mbs : mbs[r][1] = mbs[p][1]}} : p \in DOMAIN mbs}

\* C4: with allowed_mismatches = 0 every strategy, whatever the order of the
\* records it is given, puts two reads in one cluster exactly when their
\* barcodes are equal; its clusters are the groups of reads of equal barcode,
\* so the three strategies agree.
C4_ThresholdZeroExactGroups ==
  (Clustered /\ allowed_mismatches = 0) =>
    /\ \A p, q \in DOMAIN molecular_barcodes :
         (\E c \in DOMAIN formed : {molecular_barcodes[p][2], molecular_barcodes[q][2]}
                                     \subseteq Range(formed[c]))
         <=> molecular_barcodes[p][1] = molecular_barcodes[q][1]
    /\ FormedClusters = ExactGroups(molecular_barcodes)

\* C4: a strategy has formed its clusters at threshold 0 for three reads, two
\* of them of equal barcode and one of another barcode, the two not adjacent in
\* the order it was given.
C4_Witness ==
  /\ Clustered
  /\ allowed_mismatches = 0
  /\ Len(molecular_barcodes) = 3
  /\ molecular_barcodes[1][1] = molecular_barcodes[3][1]
  /\ molecular_barcodes[1][1] # molecular_barcodes[2][1]

\* The clusters formed at the threshold of the call are each contained in a
\* cluster the same strategy forms on the same records at every larger
\* threshold.
ClustersOnlyMerge ==
  \A t2 \in (allowed_mismatches + 1)..MaxMismatches :
    \A larger \in {ClustersOf(strategy, method, allow_indels, molecular_barcodes, t2)} :
      \A c \in FormedClusters : \E c2 \in larger : c \subseteq c2

\* C5 as stated: for each of the three strategies, the clusters formed at a
\* threshold are each contained in a cluster formed at every larger threshold.
C5_Original_MonotoneAllStrategies == Clustered => ClustersOnlyMerge

\* C5 amended: for the naive and the hierarchical strategy (single and
\* complete linkage), the clusters formed at a threshold are each contained in
\* a cluster formed at every larger threshold.
C5_MonotoneNaiveHierarchical ==
  (Clustered /\ strategy \in {"naive", "hierarchical"}) => ClustersOnlyMerge

\* C5: the naive or the hierarchical strategy has formed several clusters
\* at a threshold below a larger one at which fewer clusters are formed.
C5_Witness ==
  /\ Clustered
  /\ strategy \in {"naive", "hierarchical"}
  /\ Cardinality(FormedClusters) >= 2
  /\ \E t2 \in (allowed_mismatches + 1)..MaxMismatches :
       Cardinality(ClustersOf(strategy, method, allow_indels, molecular_barcodes, t2))
         < Cardinality(FormedClusters)

\* The clusters the call formed on the records in the order it was given are
\* the clusters the hierarchical strategy forms on them in the extractor's
\* order, which for these batches is the order of the reads.
SameClustersInEveryOrder ==
  \A extracted \in {[p \in DOMAIN reads |->
                       CHOOSE mb \in Range(molecular_barcodes) : mb[2] = reads[p]]} :
    FormedClusters = HierClusters(extracted, allowed_mismatches, method)

\* C6 as stated: for three records or more and both linkage methods, every
\* reordering of the records yields the clusters the hierarchical strategy
\* forms on the extractor's order.
C6_Original_OrderIndependent ==
  (pc = "hier_filter" /\ Len(molecular_barcodes) >= 3) => SameClustersInEveryOrder

\* C6 amended: for three records or more and single linkage, every
\* reordering of the records yields the clusters the hierarchical strategy
\* forms on the extractor's order.
C6_SingleLinkageOrderIndependent ==
  (pc = "hier_filter" /\ Len(molecular_barcodes) >= 3 /\ method = "single")
    => SameClustersInEveryOrder

\* C6: the hierarchical strategy with single linkage has clustered three
\* records of three barcodes that were not in the extractor's order, having
\* merged some of them and not all.
C6_Witness ==
  /\ pc = "hier_filter"
  /\ method = "single"
  /\ Len(molecular_barcodes) >= 3
  /\ \E p \in DOMAIN reads : molecular_barcodes[p][2] # reads[p]
  /\ Cardinality(ExactGroups(molecular_barcodes)) >= 3
  /\ Cardinality(FormedClusters) = 2

\* C7: an iteration of the trie strategy's second loop at a record whose
\* barcode an earlier neighbourhood consumed finds no neighbourhood, removes
\* nothing from the trie or the map and adds no read to the result.
C7_ConsumedBarcodeSkipped ==
  [][(pc = "trie_loop" /\ molecular_barcodes[i + 1][1] \notin DOMAIN trie)
       => /\ neighborhoods'[i + 1] = {}
          /\ trie' = trie
          /\ trie_reads' = trie_reads
          /\ clusters' = clusters]_vars

\* C7: the trie strategy's second loop stands at a record whose barcode the
\* neighbourhood of an earlier record consumed, while a barcode within the
\* distance of it is still in the trie.
C7_Witness ==
  /\ pc = "trie_loop"
  /\ molecular_barcodes[i + 1][1] \notin DOMAIN trie
  /\ find_equal_length_optimized(trie, molecular_barcodes[i + 1][1], allowed_mismatches,
                                 allow_indels) # {}

\* The characters of the sequence sq from position start + 1 up to position
\* end, or up to its last one.
Substring(sq, start, end) ==
  [c \in 1..((IF end <= Len(sq) THEN end ELSE Len(sq)) - start) |-> sq[start + c]]

\* C8: for end > start >= 0 the extractor returns one record per input read;
\* the barcode of a record is the substring [start:end) of the sequence of its
\* read, its occurrence count the number of reads of the batch with that
\* barcode, its N-count the number of Ns of the barcode; and the records stand
\* by barcode ascending, then occurrence count descending, then N-count
\* ascending.
C8_ExtractorOrderedRecords ==
  (pc = "extracted" /\ mc_end_position > mc_start_position /\ mc_start_position >= 0) =>
    /\ Len(molecular_barcodes) = Len(reads)
    /\ \A r \in DOMAIN reads :
         Cardinality({p \in DOMAIN molecular_barcodes : molecular_barcodes[p][2] = reads[r]}) = 1
    /\ \A p \in DOMAIN molecular_barcodes :
         LET rec == molecular_barcodes[p]
         IN  /\ rec[1] = Substring(rec[2][1], mc_start_position, mc_end_position)
             /\ rec[3] = Cardinality({r \in DOMAIN reads :
                           Substring(reads[r][1], mc_start_position, mc_end_position) = rec[1]})
             /\ rec[4] = Cardinality({c \in DOMAIN rec[1] : rec[1][c] = "N"})
    /\ \A p, q \in DOMAIN molecular_barcodes :
         p < q =>
           LET x == molecular_barcodes[p]
               y == molecular_barcodes[q]
           IN  \/ StrLess(x[1], y[1])
               \/ (x[1] = y[1] /\ x[3] > y[3])
               \/ (x[1] = y[1] /\ x[3] = y[3] /\ x[4] <= y[4])

\* C8: the extractor has returned for three reads that were not in the order
\* of their barcodes, two of them of one barcode, a barcode holding an N.
C8_Witness ==
  /\ pc = "extracted"
  /\ Len(reads) >= 3
  /\ \E p \in DOMAIN molecular_barcodes : molecular_barcodes[p][2] # reads[p]
  /\ \E p \in DOMAIN molecular_barcodes : molecular_barcodes[p][3] = 2
  /\ \E p \in DOMAIN molecular_barcodes : molecular_barcodes[p][4] >= 1

\* The members of the clusters of clusters_dict in the order of the keys.
NaiveMembers == Flatten([c \in 1..Cardinality(DOMAIN clusters_dict) |-> clusters_dict[c - 1]])

\* C9: after its sweep the naive strategy's clusters are the maximal runs of
\* the records sorted by barcode in which every two consecutive barcodes are
\* within allowed_mismatches: the clusters in the order of their keys make up
\* the sorted records, two consecutive members of a cluster are within the
\* threshold, and the last member of a cluster and the first of the next are
\* beyond it.
C9_NaiveMaximalRuns ==
  (pc = "naive_filter" /\ strategy = "naive") =>
    /\ DOMAIN clusters_dict = IF molecular_barcodes = <<>> THEN {} ELSE 0..nclusters
    /\ Len(NaiveMembers) = Len(molecular_barcodes)
    /\ \A p \in DOMAIN molecular_barcodes :
         \E q \in DOMAIN NaiveMembers : NaiveMembers[q] = molecular_barcodes[p]
    /\ \A p, q \in DOMAIN NaiveMembers :
         p < q => ~StrLess(NaiveMembers[q][1], NaiveMembers[p][1])
    /\ \A c \in DOMAIN clusters_dict :
         /\ clusters_dict[c] # <<>>
         /\ \A m \in 1..(Len(clusters_dict[c]) - 1) :
              hamming_distance(clusters_dict[c][m][1], clusters_dict[c][m + 1][1])
                <= allowed_mismatches
         /\ c < nclusters =>
              hamming_distance(clusters_dict[c][Len(clusters_dict[c])][1],
                               clusters_dict[c + 1][1][1]) > allowed_mismatches

\* C9: the naive sweep has formed a cluster two members of which are further
\* apart than allowed_mismatches.
C9_Witness ==
  /\ pc = "naive_filter"
  /\ strategy = "naive"
  /\ \E c \in DOMAIN clusters_dict : \E m1, m2 \in DOMAIN clusters_dict[c] :
       hamming_distance(clusters_dict[c][m1][1], clusters_dict[c][m2][1]) > allowed_mismatches

\* C10: before and after every iteration of the trie strategy's second loop
\* the barcodes in the trie are the keys of the map reads and the count of each
\* is the number of reads mapped to it; the size_cluster of an iteration is the
\* number of reads it gathered; and the neighbourhoods of two iterations share
\* no barcode.
C10_TrieAndMapInLockstep ==
  (strategy = "trie" /\ pc \in {"trie_loop", "done"}) =>
    /\ DOMAIN trie = DOMAIN trie_reads
    /\ \A b \in DOMAIN trie : TrieGetCount(trie, b) = Len(trie_reads[b])
    /\ i >= 1 => size_cluster = Len(formed[i])
    /\ \A a, b \in DOMAIN neighborhoods :
         a < b => neighborhoods[a] \cap neighborhoods[b] = {}

\* C10: the second loop of the trie strategy has run an iteration that
\* gathered the reads of several barcodes, and a barcode is still in the trie.
C10_Witness ==
  /\ strategy = "trie"
  /\ pc = "trie_loop"
  /\ i >= 1
  /\ Cardinality(neighborhoods[i]) >= 2
  /\ size_cluster >= 2
  /\ DOMAIN trie # {}

====
